---- MODULE Spec2Model ----
(***************************************************************************)
(* FFcuesplitter: the FFmpeg job runner (ffcuesplitter/ffmpeg.py).         *)
(*                                                                         *)
(* One run processes the tracks of a cue sheet one after another.  For     *)
(* each track FFMpeg.processing dispatches on the progress meter to one of *)
(* processing_with_mymet_progress, processing_with_tqdm_progress or        *)
(* processing_with_standard_progress.  The child process (ffmpeg), the     *)
(* pipe between child and runner, Python's buffered log file object and    *)
(* the interrupt (KeyboardInterrupt) are part of the state.                *)
(***************************************************************************)
EXTENDS Integers, Sequences, FiniteSets, TLC

(***************************************************************************)
(* Bounds of the model.                                                    *)
(***************************************************************************)
NJobs == 2          \* tracks processed in one run
MaxLines == 2       \* lines the child writes on its piped stream, per job
MaxErrLines == 1    \* lines the child writes on a stderr that is not piped
PipeCap == 1        \* lines the pipe holds before the child blocks

(***************************************************************************)
(* Program constants.                                                      *)
(***************************************************************************)
Million == 1000000  \* divisor of out_time_ms, ffmpeg.py line 207

Meters == {"mymet", "tqdm", "standard"}
Platforms == {"Windows", "Linux"}
Binaries == {"ok", "missing", "noexec"}
ExitCodes == {0, 1, 2}

(***************************************************************************)
(* Lines of text.  A line is its key, whether an integer follows the first *)
(* '=', and that integer.                                                  *)
(***************************************************************************)
Ln(k, i, v) == [key |-> k, isInt |-> i, val |-> v]

\* out_time_ms values (microseconds) the child may report
Times == {500000, 1000000, 1500000, 2500000, 3000000}

\* stdout of `ffmpeg -progress pipe:1`: out_time_ms=<int>, out_time_ms=N/A,
\* and other keys (speed=..., progress=continue)
ProgressLines ==
    {Ln("out_time_ms", TRUE, t) : t \in Times}
        \cup {Ln("out_time_ms", FALSE, 0), Ln("speed", FALSE, 0)}

\* stderr of `ffmpeg -stats`: status lines carrying time=..., and other text
StatsLines == {Ln("time=", TRUE, 1), Ln("time=", TRUE, 2), Ln("info", FALSE, 0)}

\* what the child writes on a stderr handed to it as a file
StderrLine == Ln("stderr", FALSE, 0)

\* f'COMMAND: {cmd}' as written to the log
Header == Ln("COMMAND", FALSE, 0)

VARIABLES
    meter, dry, plat, binary, logOk,        \* configuration and environment
    run, job, msgs,                         \* the run: jobs one after another
    pc, outcome, err, argOk,                \* the runner inside one job
    logOpen, logBuf, logFile, logCreated,   \* the log: file object and file
    child, toWrite, errLeft, pipe, rdOpen, exitCode,   \* the child process
    progbar, closes, previous_s, updates, reports, display,  \* progress
    termSent, killSent,                     \* signals sent to the child
    didRead, didWait, spawnTried,           \* what the runner has called
    audiotracks, format, arguments, seconds, built,  \* ffmpeg_arguments
    ffprobe_url, parse, probed, perr,       \* FFProbe(...): the construction
    cmnd, proc,                             \* the command and the engine run
    output,                                 \* the report handed to parser
    mediastreams, mediaformat, datalines,   \* FFProbe attributes
    video, audio, subtitle, p_format, writer,
    ret, lastCall, firstRet, ncalls         \* the calls of the accessors

buildVars == <<audiotracks, format, arguments, seconds, built>>
probeVars == <<ffprobe_url, parse, probed, perr, cmnd, proc, output,
               mediastreams, mediaformat, datalines, video, audio, subtitle, p_format,
               writer, ret, lastCall, firstRet, ncalls>>
env == <<meter, dry, plat, binary, logOk, buildVars, probeVars>>
logVars == <<logOpen, logBuf, logFile, logCreated>>
childVars == <<child, toWrite, errLeft, pipe, rdOpen, exitCode>>
progVars == <<progbar, closes, previous_s, updates, reports, display>>
sigVars == <<termSent, killSent>>
callVars == <<didRead, didWait, spawnTried>>
vars == <<env, run, job, msgs, pc, outcome, err, argOk, logVars, childVars,
          progVars, sigVars, callVars>>

(***************************************************************************)
(* Errors: the exception type, what caused it, whether its message holds   *)
(* the log file path, and the exit codes its message holds.                *)
(***************************************************************************)
Error(t, c, lp, cs) == [type |-> t, cause |-> c, logpath |-> lp, codes |-> cs]
NoErr == Error("none", "none", FALSE, {})

ExitFailureNoStatus(code) == Error("FFMpegError", "exit", TRUE, {})

\* f"ffmpeg FAILED: See log details: '{logtofile}'\nExit status: {proc.wait()}"
ExitFailure(code) == Error("FFMpegError", "exit", TRUE, {code})

\* f"ffmpeg FAILED: {err}", err a CalledProcessError:
\* "Command '[...]' returned non-zero exit status <code>."
RunFailure(code) == Error("FFMpegError", "CalledProcessError", FALSE, {code})

SpawnFailureUncaught(b) ==
    Error(IF b = "missing" THEN "FileNotFoundError" ELSE "PermissionError",
          "spawn", FALSE, {})

\* FFMpegError(excepterr) for the OSError of a spawn
SpawnFailure(b) ==
    Error("FFMpegError",
          IF b = "missing" THEN "FileNotFoundError" ELSE "PermissionError",
          FALSE, {})

\* FFMpegError(excepterr) for the OSError of open(); str(OSError) holds the path
LogOpenFailure == Error("FFMpegError", "OSError", TRUE, {})

(***************************************************************************)
(* round(x / d) as Python 3 rounds: to the nearest integer, ties to even.  *)
(***************************************************************************)
RoundHalfEven(n, d) ==
    LET q == n \div d
        r == n % d
    IN  IF 2 * r < d THEN q
        ELSE IF 2 * r > d THEN q + 1
        ELSE IF q % 2 = 0 THEN q ELSE q + 1

\* round(int(output.split('=')[1]) / 1_000_000)
WholeSeconds(us) == RoundHalfEven(us, Million)

IncreaseFromZero(s_processed, prev) == s_processed

\* s_increase = s_processed - previous_s
Increase(s_processed, prev) == s_processed - prev

(***************************************************************************)
(* The log file object: write() appends to Python's buffer, and the buffer *)
(* reaches the file when it fills (any write may be the one) and at close. *)
(***************************************************************************)
LogWrite(file, buf, x) ==
    \E fill \in BOOLEAN :
        IF fill
        THEN /\ logFile' = file \o buf \o <<x>>
             /\ logBuf' = <<>>
        ELSE /\ logBuf' = Append(buf, x)
             /\ logFile' = file

\* leaving `with open(...) as log`: flush and close
LogClose ==
    /\ logFile' = logFile \o logBuf
    /\ logBuf' = <<>>
    /\ logOpen' = FALSE

\* progbar.close()
ProgClose ==
    /\ progbar' = "closed"
    /\ closes' = closes + 1

(***************************************************************************)
(* The end of a job: processing() returns or raises.  A raised exception   *)
(* leaves the loop over the tracks, so the run starts no further job.      *)
(***************************************************************************)
\* the loop over the tracks goes on after a job that returned; an exception
\* (FFMpegError, SystemExit or any other) leaves it
RunAfter(out) == IF out = "success" THEN "running" ELSE "ended"

End(out, e) ==
    /\ pc' = "idle"
    /\ outcome' = out
    /\ err' = e
    /\ job' = job + 1
    /\ run' = RunAfter(out)

\* FFProbeError and what its message holds
ProbeError(c, t) == [type |-> "FFProbeError", cause |-> c, text |-> t]
NoProbeErr == [type |-> "none", cause |-> "none", text |-> <<>>]

\* the engine process: Popen(cmnd, ...) and proc.communicate()
Proc(st, rc, e) == [state |-> st, returncode |-> rc, error |-> e]
NoProc == Proc("none", 0, <<>>)

\* no call of an accessor yet
NoCall == [fn |-> "none", item |-> <<>>]
NoRet == [kind |-> "none", val |-> <<>>]

\* the accessor calls: video_stream(), audio_stream(), subtitle_stream(),
\* data_format() and data_format(item)
Items == {<<>>, <<"title">>, <<"size">>}
Calls ==
    {[fn |-> f, item |-> <<>>] : f \in {"video", "audio", "subtitle"}}
        \cup {[fn |-> "format", item |-> it] : it \in Items}

\* FFProbe.__init__, lines 188-195: the attributes before the engine is run
ProbeFresh ==
    /\ probed = "no" /\ perr = NoProbeErr /\ output = <<>>
    /\ cmnd = "none" /\ proc = NoProc
    /\ mediastreams = <<>> /\ mediaformat = <<>> /\ datalines = <<>>
    /\ video = <<>> /\ audio = <<>> /\ subtitle = <<>> /\ p_format = <<>>
    /\ writer = <<>>
    /\ ret = NoRet /\ lastCall = NoCall
    /\ firstRet = [c \in Calls |-> NoRet]
    /\ ncalls = 0

Init ==
    /\ meter \in Meters
    /\ dry \in BOOLEAN
    /\ plat \in Platforms
    /\ binary \in Binaries
    /\ logOk \in BOOLEAN
    /\ run = "running" /\ job = 0 /\ msgs = <<>>
    /\ pc = "idle" /\ outcome = "none" /\ err = NoErr /\ argOk = TRUE
    /\ logOpen = FALSE /\ logBuf = <<>> /\ logFile = <<>> /\ logCreated = FALSE
    /\ child = "none" /\ toWrite = 0 /\ errLeft = 0 /\ pipe = <<>>
    /\ rdOpen = FALSE /\ exitCode = 0
    /\ progbar = "none" /\ closes = 0 /\ previous_s = 0
    /\ updates = <<>> /\ reports = <<>> /\ display = <<>>
    /\ termSent = FALSE /\ killSent = FALSE
    /\ didRead = FALSE /\ didWait = FALSE /\ spawnTried = FALSE
    /\ audiotracks = <<>> /\ format = "flac"
    /\ arguments = <<>> /\ seconds = <<>> /\ built = "no"
    /\ ffprobe_url = "ok" /\ parse = TRUE /\ ProbeFresh

(***************************************************************************)
(* FFMpeg.processing: tokenise the invocation, return at once on a dry     *)
(* run, else enter the function of the selected meter.                     *)
(***************************************************************************)
\* cmd = arg if self.plat == 'Windows' else shlex.split(arg); shlex.split
\* raises ValueError on an unbalanced quote.  TRUE when cmd is produced.
ShlexSplit(platform, balanced) == platform = "Windows" \/ balanced

DryReturnNotStandard(m, d) == d /\ m # "standard"

\* if self.kwargs['dry'] is True: msg(cmd); return    (in each branch)
DryReturn(m, d) == d

\* first position inside the meter's function
Entry(m) == IF m = "tqdm" THEN "call" ELSE "open"

FreshJob ==
    /\ child' = "none" /\ toWrite' = 0 /\ errLeft' = 0 /\ pipe' = <<>>
    /\ rdOpen' = FALSE /\ exitCode' = 0
    /\ progbar' = "none" /\ closes' = 0 /\ previous_s' = 0
    /\ updates' = <<>> /\ reports' = <<>> /\ display' = <<>>
    /\ didRead' = FALSE /\ didWait' = FALSE /\ spawnTried' = FALSE

processing ==
    /\ run = "running" /\ pc = "idle" /\ job < NJobs
    /\ FreshJob
    /\ \E balanced \in BOOLEAN :
        /\ argOk' = balanced
        /\ IF ~ShlexSplit(plat, balanced)
           THEN /\ End("crashed", Error("ValueError", "shlex.split", FALSE, {}))
                /\ msgs' = msgs
           ELSE IF DryReturn(meter, dry)
           THEN /\ End("success", NoErr)
                /\ msgs' = Append(msgs, job + 1)
           ELSE /\ pc' = Entry(meter)
                /\ outcome' = "none" /\ err' = NoErr
                /\ UNCHANGED <<job, run, msgs>>
    /\ UNCHANGED <<env, logVars, sigVars>>

(***************************************************************************)
(* The child process.  Its piped stream is stderr under mymet and stdout   *)
(* under tqdm; under tqdm its stderr is the log file's descriptor; under   *)
(* standard both go to the terminal.                                       *)
(***************************************************************************)
Piped(m) == m \in {"mymet", "tqdm"}

StreamLines(m) == IF m = "mymet" THEN StatsLines ELSE ProgressLines

\* a write on the pipe blocks while the pipe is full; with the read end
\* closed the write fails and the line is lost
child_write ==
    /\ child = "running" /\ Piped(meter) /\ toWrite > 0
    /\ IF rdOpen
       THEN /\ Len(pipe) < PipeCap
            /\ \E l \in StreamLines(meter) : pipe' = Append(pipe, l)
       ELSE pipe' = pipe
    /\ toWrite' = toWrite - 1
    /\ UNCHANGED <<env, run, job, msgs, pc, outcome, err, argOk, logVars,
                   child, errLeft, rdOpen, exitCode, progVars, sigVars,
                   callVars>>

\* tqdm: stderr=log, the child writes through the descriptor it inherited
child_stderr ==
    /\ child \in {"running", "closed"} /\ meter = "tqdm" /\ errLeft > 0
    /\ logFile' = Append(logFile, StderrLine)
    /\ errLeft' = errLeft - 1
    /\ UNCHANGED <<env, run, job, msgs, pc, outcome, err, argOk, logOpen,
                   logBuf, logCreated, child, toWrite, pipe, rdOpen, exitCode,
                   progVars, sigVars, callVars>>

\* the child closes its end of the pipe: the reader sees end-of-stream
child_close ==
    /\ child = "running" /\ Piped(meter)
    /\ child' = "closed"
    /\ UNCHANGED <<env, run, job, msgs, pc, outcome, err, argOk, logVars,
                   toWrite, errLeft, pipe, rdOpen, exitCode, progVars,
                   sigVars, callVars>>

child_exit ==
    /\ child = (IF Piped(meter) THEN "closed" ELSE "running")
    /\ child' = "exited"
    /\ \E c \in ExitCodes : exitCode' = c
    /\ UNCHANGED <<env, run, job, msgs, pc, outcome, err, argOk, logVars,
                   toWrite, errLeft, pipe, rdOpen, progVars, sigVars,
                   callVars>>

\* the child dies of the SIGTERM of proc.terminate()
child_sigterm ==
    /\ termSent /\ child \in {"running", "closed"}
    /\ child' = "exited"
    /\ exitCode' = -15
    /\ UNCHANGED <<env, run, job, msgs, pc, outcome, err, argOk, logVars,
                   toWrite, errLeft, pipe, rdOpen, progVars, sigVars,
                   callVars>>

\* Popen(...) succeeded: the child runs
Spawned ==
    /\ child' = "running"
    /\ toWrite' = MaxLines
    /\ errLeft' = IF meter = "tqdm" THEN MaxErrLines ELSE 0
    /\ pipe' = <<>>
    /\ rdOpen' = Piped(meter)
    /\ exitCode' = 0

(***************************************************************************)
(* processing_with_mymet_progress                                          *)
(***************************************************************************)
AnyLine(l) == TRUE

\* 'time=' in output.strip()
TimeMarker(l) == l.key = "time="

SystemExit == Error("SystemExit", "KeyboardInterrupt", FALSE, {})
Unbound == Error("UnboundLocalError", "proc", FALSE, {})
Interrupted == Error("KeyboardInterrupt", "KeyboardInterrupt", FALSE, {})

\* with open(logtofile, "w") as log: log.write(f'COMMAND: {cmd}\n\n')
mymet_open ==
    /\ pc = "open" /\ meter = "mymet"
    /\ IF logOk
       THEN /\ logOpen' = TRUE /\ logCreated' = TRUE
            /\ LogWrite(<<>>, <<>>, Header)
            /\ pc' = "spawn"
            /\ UNCHANGED <<outcome, err, job, run>>
       ELSE /\ End("failure", LogOpenFailure)
            /\ UNCHANGED logVars
    /\ UNCHANGED <<env, msgs, argOk, childVars, progVars, sigVars, callVars>>

\* with Popen(cmd, stderr=subprocess.PIPE, ...) as proc
mymet_popen ==
    /\ pc = "spawn" /\ meter = "mymet"
    /\ spawnTried' = TRUE
    /\ IF binary = "ok"
       THEN /\ Spawned
            /\ pc' = "read"
            /\ UNCHANGED <<outcome, err, job, run, logVars>>
       ELSE /\ LogClose
            /\ End("failure", SpawnFailure(binary))
            /\ UNCHANGED <<childVars, logCreated>>
    /\ UNCHANGED <<env, msgs, argOk, progVars, sigVars, didRead, didWait>>

\* for output in proc.stderr: log.write(output); show the lines with time=
mymet_read ==
    /\ pc = "read" /\ meter = "mymet"
    /\ didRead' = TRUE
    /\ IF pipe # <<>>
       THEN /\ pipe' = Tail(pipe)
            /\ LogWrite(logFile, logBuf, Head(pipe))
            /\ display' = IF TimeMarker(Head(pipe))
                          THEN Append(display, Head(pipe)) ELSE display
            /\ pc' = pc
       ELSE /\ child \in {"closed", "exited"}
            /\ pc' = "wait"
            /\ UNCHANGED <<pipe, logFile, logBuf, display>>
    /\ UNCHANGED <<env, run, job, msgs, outcome, err, argOk, logOpen,
                   logCreated, child, toWrite, errLeft, rdOpen, exitCode,
                   progbar, closes, previous_s, updates, reports, sigVars,
                   didWait, spawnTried>>

\* if proc.wait(): raise FFMpegError(... logtofile ... proc.wait())
mymet_wait ==
    /\ pc = "wait" /\ meter = "mymet"
    /\ child = "exited"
    /\ didWait' = TRUE
    /\ rdOpen' = FALSE
    /\ LogClose
    /\ IF exitCode # 0
       THEN End("failure", ExitFailure(exitCode))
       ELSE End("success", NoErr)
    /\ UNCHANGED <<env, msgs, argOk, logCreated, child, toWrite, errLeft,
                   pipe, exitCode, progVars, sigVars, didRead, spawnTried>>

\* except KeyboardInterrupt: proc.terminate(); sys.exit(...)
\* proc is bound only once Popen has returned
mymet_interrupt ==
    /\ meter = "mymet" /\ pc \in {"open", "spawn", "read", "wait"}
    /\ LogClose
    /\ rdOpen' = FALSE
    /\ IF pc \in {"open", "spawn"}
       THEN /\ End("crashed", Unbound)
            /\ UNCHANGED sigVars
       ELSE /\ termSent' = TRUE
            /\ End("exit", SystemExit)
            /\ UNCHANGED killSent
    /\ UNCHANGED <<env, msgs, argOk, logCreated, child, toWrite, errLeft,
                   pipe, exitCode, progVars, callVars>>

(***************************************************************************)
(* processing_with_tqdm_progress                                           *)
(***************************************************************************)
\* "out_time_ms" in output.strip()
HasOutTime(l) == l.key = "out_time_ms"

\* progbar = tqdm(total=round(seconds), ...); progbar.clear(); previous_s = 0
tqdm_create ==
    /\ pc = "call" /\ meter = "tqdm"
    /\ progbar' = "open"
    /\ previous_s' = 0
    /\ pc' = "open"
    /\ UNCHANGED <<env, run, job, msgs, outcome, err, argOk, logVars,
                   childVars, closes, updates, reports, display, sigVars,
                   callVars>>

\* with open(logtofile, "w") as log: log.write(f'\nCOMMAND: {cmd}')
tqdm_open ==
    /\ pc = "open" /\ meter = "tqdm"
    /\ IF logOk
       THEN /\ logOpen' = TRUE /\ logCreated' = TRUE
            /\ LogWrite(<<>>, <<>>, Header)
            /\ pc' = "spawn"
            /\ UNCHANGED <<outcome, err, job, run, progbar, closes>>
       ELSE /\ ProgClose
            /\ End("failure", LogOpenFailure)
            /\ UNCHANGED logVars
    /\ UNCHANGED <<env, msgs, argOk, childVars, previous_s, updates, reports,
                   display, sigVars, callVars>>

\* with Popen(cmd, stdout=subprocess.PIPE, stderr=log, ...) as proc
tqdm_popen ==
    /\ pc = "spawn" /\ meter = "tqdm"
    /\ spawnTried' = TRUE
    /\ IF binary = "ok"
       THEN /\ Spawned
            /\ pc' = "read"
            /\ UNCHANGED <<outcome, err, job, run, logVars, progbar, closes>>
       ELSE /\ LogClose
            /\ ProgClose
            /\ End("failure", SpawnFailure(binary))
            /\ UNCHANGED <<childVars, logCreated>>
    /\ UNCHANGED <<env, msgs, argOk, previous_s, updates, reports, display,
                   sigVars, didRead, didWait>>

\* for output in proc.stdout: the lines with out_time_ms update the bar;
\* int() of a value that is no integer raises ValueError, which no except
\* clause catches: Popen.__exit__ closes the pipe and waits for the child
tqdm_read ==
    /\ pc = "read" /\ meter = "tqdm"
    /\ didRead' = TRUE
    /\ IF pipe # <<>>
       THEN LET l == Head(pipe) IN
            IF HasOutTime(l) /\ ~l.isInt
            THEN /\ pc' = "unwind"
                 /\ err' = Error("ValueError", "int", FALSE, {})
                 /\ rdOpen' = FALSE
                 /\ pipe' = <<>>
                 /\ UNCHANGED <<previous_s, updates, reports>>
            ELSE /\ pipe' = Tail(pipe)
                 /\ pc' = pc
                 /\ UNCHANGED <<err, rdOpen>>
                 /\ IF HasOutTime(l)
                    THEN /\ reports' = Append(reports, l.val)
                         /\ updates' = Append(updates,
                                Increase(WholeSeconds(l.val), previous_s))
                         /\ previous_s' = WholeSeconds(l.val)
                    ELSE UNCHANGED <<previous_s, updates, reports>>
       ELSE /\ child \in {"closed", "exited"}
            /\ pc' = "wait"
            /\ UNCHANGED <<pipe, err, rdOpen, previous_s, updates, reports>>
    /\ UNCHANGED <<env, run, job, msgs, outcome, argOk, logVars, child,
                   toWrite, errLeft, exitCode, progbar, closes, display,
                   sigVars, didWait, spawnTried>>

\* the ValueError leaves the with blocks once the child has exited
tqdm_unwind ==
    /\ pc = "unwind" /\ meter = "tqdm"
    /\ child = "exited"
    /\ LogClose
    /\ End("crashed", err)
    /\ UNCHANGED <<env, msgs, argOk, logCreated, childVars, progVars,
                   sigVars, callVars>>

\* if proc.wait(): progbar.close(); raise FFMpegError(...)
\* else, after the with block: progbar.close()
tqdm_wait ==
    /\ pc = "wait" /\ meter = "tqdm"
    /\ child = "exited"
    /\ didWait' = TRUE
    /\ rdOpen' = FALSE
    /\ LogClose
    /\ ProgClose
    /\ IF exitCode # 0
       THEN End("failure", ExitFailure(exitCode))
       ELSE End("success", NoErr)
    /\ UNCHANGED <<env, msgs, argOk, logCreated, child, toWrite, errLeft,
                   pipe, exitCode, previous_s, updates, reports, display,
                   sigVars, didRead, spawnTried>>

\* except KeyboardInterrupt: progbar.close(); proc.terminate(); sys.exit(...)
\* before the try (pc = "call") nothing catches the interrupt
tqdm_interrupt ==
    /\ meter = "tqdm" /\ pc \in {"call", "open", "spawn", "read", "wait", "unwind"}
    /\ LogClose
    /\ rdOpen' = FALSE
    /\ IF pc = "call"
       THEN /\ End("crashed", Interrupted)
            /\ UNCHANGED <<sigVars, progbar, closes>>
       ELSE IF pc \in {"open", "spawn"}
       THEN /\ ProgClose
            /\ End("crashed", Unbound)
            /\ UNCHANGED sigVars
       ELSE /\ ProgClose
            /\ termSent' = TRUE
            /\ End("exit", SystemExit)
            /\ UNCHANGED killSent
    /\ UNCHANGED <<env, msgs, argOk, logCreated, child, toWrite, errLeft,
                   pipe, exitCode, previous_s, updates, reports, display,
                   callVars>>

(***************************************************************************)
(* processing_with_standard_progress                                       *)
(***************************************************************************)
\* with open(logtofile, "w") as log: log.write(f'COMMAND: {cmd}')
\* outside the try: an OSError of open() is not caught
standard_open ==
    /\ pc = "open" /\ meter = "standard"
    /\ IF logOk
       THEN /\ logCreated' = TRUE
            /\ logFile' = <<Header>>
            /\ pc' = "spawn"
            /\ UNCHANGED <<outcome, err, job, run, logOpen, logBuf>>
       ELSE /\ End("crashed", Error("OSError", "open", TRUE, {}))
            /\ UNCHANGED logVars
    /\ UNCHANGED <<env, msgs, argOk, childVars, progVars, sigVars, callVars>>

\* subprocess.run(cmd, check=True, shell=False): the spawn
\* except FileNotFoundError as err: raise FFMpegError(f"{err}")
standard_run ==
    /\ pc = "spawn" /\ meter = "standard"
    /\ spawnTried' = TRUE
    /\ IF binary = "ok"
       THEN /\ Spawned
            /\ pc' = "wait"
            /\ UNCHANGED <<outcome, err, job, run>>
       ELSE /\ IF binary = "missing"
               THEN End("failure", SpawnFailure(binary))
               ELSE End("crashed", Error("PermissionError", "spawn", FALSE, {}))
            /\ UNCHANGED childVars
    /\ UNCHANGED <<env, msgs, argOk, logVars, progVars, sigVars, didRead,
                   didWait>>

\* subprocess.run returns when the child has exited
\* except subprocess.CalledProcessError as err: raise FFMpegError(...)
standard_wait ==
    /\ pc = "wait" /\ meter = "standard"
    /\ child = "exited"
    /\ didWait' = TRUE
    /\ IF exitCode # 0
       THEN End("failure", RunFailure(exitCode))
       ELSE End("success", NoErr)
    /\ UNCHANGED <<env, msgs, argOk, logVars, childVars, progVars, sigVars,
                   didRead, spawnTried>>

\* except KeyboardInterrupt: sys.exit("\n[KeyboardInterrupt]")
\* subprocess.run kills the child it waits for before it re-raises
standard_interrupt ==
    /\ meter = "standard" /\ pc \in {"open", "spawn", "wait"}
    /\ IF pc = "open"
       THEN /\ End("crashed", Interrupted)
            /\ UNCHANGED <<sigVars, child, exitCode>>
       ELSE IF pc = "spawn"
       THEN /\ End("exit", SystemExit)
            /\ UNCHANGED <<sigVars, child, exitCode>>
       ELSE /\ End("exit", SystemExit)
            /\ killSent' = TRUE
            /\ child' = "exited"
            /\ exitCode' = IF child = "exited" THEN exitCode ELSE -9
            /\ UNCHANGED termSent
    /\ UNCHANGED <<env, msgs, argOk, logVars, toWrite, errLeft, pipe, rdOpen,
                   progVars, callVars>>

(***************************************************************************)
(* FFMpeg.ffmpeg_arguments: one invocation and one duration per track.     *)
(*                                                                         *)
(* A string is the sequence of its pieces, the empty string is <<>>.  An   *)
(* invocation is the sequence of its arguments; the seconds after -ss and  *)
(* -to are kept as a number of microseconds (6 decimal places).            *)
(***************************************************************************)
MaxTracks == 2      \* tracks in the list given to ffmpeg_arguments

SampleRate == 44100 \* ffmpeg.py line 94
Places == 6         \* ffmpeg.py line 94: round(..., 6)

\* the keys a track dictionary may lack
MetaKeys == {"ARTIST", "ALBUM", "TITLE", "GENRE", "DATE", "COMMENT", "DISCID"}

\* START and END offsets, in samples
Offsets == {0, 1, 22050, 44100}

\* which optional metadata a track carries, and whether the values are empty
MetaShapes ==
    { [keys |-> MetaKeys, text |-> <<"x">>],
      [keys |-> MetaKeys, text |-> <<>>],
      [keys |-> {"TITLE"}, text |-> <<"x">>],
      [keys |-> {}, text |-> <<>>] }

\* what varies from track to track: the offsets (START < END when END is
\* present, as the cue sheet gives them) and the metadata
TrackChoices ==
    { [start |-> st, end |-> en, hasEnd |-> TRUE, shape |-> sh] :
        st \in Offsets, en \in Offsets, sh \in MetaShapes }
    \cup { [start |-> st, end |-> 0, hasEnd |-> FALSE, shape |-> sh] :
        st \in Offsets, sh \in MetaShapes }

ValidChoice(c) == c.hasEnd => c.start < c.end

\* the track dictionary: `keys` are the keys present in the dictionary
Track(num, c) ==
    [ keys |-> {"FILE", "START", "TRACK_NUM", "DURATION"} \cup c.shape.keys
                 \cup (IF c.hasEnd THEN {"END"} ELSE {}),
      FILE |-> <<"cd.flac">>, START |-> c.start, END |-> c.end,
      TRACK_NUM |-> num, DURATION |-> num + 100,
      ARTIST |-> c.shape.text, ALBUM |-> c.shape.text,
      TITLE |-> c.shape.text, GENRE |-> c.shape.text,
      DATE |-> c.shape.text, COMMENT |-> c.shape.text,
      DISCID |-> c.shape.text ]

\* a track list: the tracks numbered from `first` on
TrackList(first, cs) == [i \in DOMAIN cs |-> Track(first + i - 1, cs[i])]

\* progress meter and output format of a run
Profiles ==
    { <<"mymet", "wav">>, <<"tqdm", "flac">>, <<"standard", "ogg">>,
      <<"standard", "mp3">> }

\* meters = {'mymet': ..., 'tqdm': ..., 'standard': ''}
MeterFlags(m) ==
    IF m = "mymet" THEN <<"-stats -hide_banner -nostdin">>
    ELSE IF m = "tqdm" THEN <<"-progress pipe:1 -nostats -nostdin">>
    ELSE <<>>

\* FFMpeg.DATACODECS
DataCodecs(f) ==
    IF f = "wav" THEN <<"pcm_s16le -ar 44100">>
    ELSE IF f = "flac" THEN <<"flac -ar 44100">>
    ELSE IF f = "ogg" THEN <<"libvorbis -ar 44100">>
    ELSE <<"libmp3lame -ar 44100">>

Digit == <<"0", "1", "2", "3", "4", "5", "6", "7", "8", "9">>

\* str(n) for n >= 0
RECURSIVE Str(_)
Str(n) == IF n < 10 THEN <<Digit[n + 1]>>
          ELSE Str(n \div 10) \o <<Digit[(n % 10) + 1]>>

RJustNone(s, width, fill) == s

\* s.rjust(width, fill)
RECURSIVE RJust(_, _, _)
RJust(s, width, fill) ==
    IF Len(s) >= width THEN s ELSE RJust(<<fill>> \o s, width, fill)

RECURSIVE Pow10(_)
Pow10(k) == IF k = 0 THEN 1 ELSE 10 * Pow10(k - 1)

SecondsTruncated(n) == (n * (Pow10(Places) \div 100)) \div (SampleRate \div 100)

\* round(n / 44100, 6), in microseconds.  n / 44100 = n * 10^6 / 44100
\* microseconds; the fraction is reduced by 100 and the whole seconds are
\* split off to stay within 32-bit integers.
Seconds6(n) ==
    (n \div SampleRate) * Pow10(Places)
        + RoundHalfEven((n % SampleRate) * (Pow10(Places) \div 100),
                        SampleRate \div 100)

\* track.get(key, '')
Get(t, k) == IF k \in t.keys THEN t[k] ELSE <<>>

\* one argument of the invocation
Tok(o, k, v, n) == [opt |-> o, key |-> k, val |-> v, num |-> n]

ToFlagAlways(t) == <<Tok("-to", "", <<>>, Seconds6(t.END))>>

\* if 'END' in track: cmd += f" -to {round(track['END'] / 44100, 6)}"
ToFlag(t) ==
    IF "END" \in t.keys THEN <<Tok("-to", "", <<>>, Seconds6(t.END))>> ELSE <<>>

\* the metadata dictionary, in its order, one -metadata KEY="value" each
Metadata(t, total) ==
    << Tok("-metadata", "ARTIST", Get(t, "ARTIST"), 0),
       Tok("-metadata", "ALBUM", Get(t, "ALBUM"), 0),
       Tok("-metadata", "TITLE", Get(t, "TITLE"), 0),
       Tok("-metadata", "TRACK", Str(t.TRACK_NUM) \o <<"/">> \o Str(total), 0),
       Tok("-metadata", "GENRE", Get(t, "GENRE"), 0),
       Tok("-metadata", "DATE", Get(t, "DATE"), 0),
       Tok("-metadata", "COMMENT", Get(t, "COMMENT"), 0),
       Tok("-metadata", "DISCID", Get(t, "DISCID"), 0) >>

\* the invocation of one track: lines 90-103
Cmd(t, total, m, f) ==
    << Tok("ffmpeg_url", "", <<"ffmpeg">>, 0),
       Tok("-loglevel", "", <<"warning">>, 0),
       Tok("meter", "", MeterFlags(m), 0),
       Tok("-i", "", t.FILE, 0),
       Tok("-ss", "", <<>>, Seconds6(t.START)) >>
    \o ToFlag(t)
    \o Metadata(t, total)
    \o << Tok("-c:a", "", DataCodecs(f), 0),
          Tok("ffmpeg_add_params", "", <<>>, 0),
          Tok("output", "tempdir",
              RJust(Str(t.TRACK_NUM), 2, "0") \o <<" - ">> \o t.TITLE, 0) >>

\* track["TITLE"] raises KeyError when the track has no TITLE
CanBuild(t) == "TITLE" \in t.keys

\* the tracks built before the loop ends or raises
Built(tracks) ==
    IF \A i \in DOMAIN tracks : CanBuild(tracks[i]) THEN Len(tracks)
    ELSE (CHOOSE i \in DOMAIN tracks :
              /\ ~CanBuild(tracks[i])
              /\ \A j \in 1..(i - 1) : CanBuild(tracks[j])) - 1

ffmpeg_arguments ==
    /\ built = "no"
    /\ arguments' = [i \in 1..Built(audiotracks) |->
                        Cmd(audiotracks[i], Len(audiotracks), meter, format)]
    /\ seconds' = [i \in 1..Built(audiotracks) |-> audiotracks[i].DURATION]
    /\ built' = IF Built(audiotracks) = Len(audiotracks)
                THEN "returned" ELSE "KeyError"
    /\ UNCHANGED <<meter, dry, plat, binary, logOk, audiotracks, format, run,
                   job, msgs, pc, outcome, err, argOk, logVars, childVars,
                   progVars, sigVars, callVars, probeVars>>

InitArgs ==
    /\ \E p \in Profiles : meter = p[1] /\ format = p[2]
    /\ \E n \in 1..MaxTracks, first \in {1, 9} :
          \E cs \in [1..n -> {c \in TrackChoices : ValidChoice(c)}] :
              audiotracks = TrackList(first, cs)
    /\ arguments = <<>> /\ seconds = <<>> /\ built = "no"
    /\ dry = FALSE /\ plat = "Linux" /\ binary = "ok" /\ logOk = TRUE
    /\ run = "running" /\ job = 0 /\ msgs = <<>>
    /\ pc = "idle" /\ outcome = "none" /\ err = NoErr /\ argOk = TRUE
    /\ logOpen = FALSE /\ logBuf = <<>> /\ logFile = <<>> /\ logCreated = FALSE
    /\ child = "none" /\ toWrite = 0 /\ errLeft = 0 /\ pipe = <<>>
    /\ rdOpen = FALSE /\ exitCode = 0
    /\ progbar = "none" /\ closes = 0 /\ previous_s = 0
    /\ updates = <<>> /\ reports = <<>> /\ display = <<>>
    /\ termSent = FALSE /\ killSent = FALSE
    /\ didRead = FALSE /\ didWait = FALSE /\ spawnTried = FALSE
    /\ ffprobe_url = "ok" /\ parse = TRUE /\ ProbeFresh

NextArgs == ffmpeg_arguments

SpecArgs == InitArgs /\ [][NextArgs]_vars

Next ==
    \/ processing
    \/ mymet_open
    \/ mymet_popen
    \/ mymet_read
    \/ mymet_wait
    \/ mymet_interrupt
    \/ tqdm_create
    \/ tqdm_open
    \/ tqdm_popen
    \/ tqdm_read
    \/ tqdm_unwind
    \/ tqdm_wait
    \/ tqdm_interrupt
    \/ standard_open
    \/ standard_run
    \/ standard_wait
    \/ standard_interrupt
    \/ child_write
    \/ child_stderr
    \/ child_close
    \/ child_exit
    \/ child_sigterm

Spec == Init /\ [][Next]_vars

(***************************************************************************)
(* The run without interrupts, child and runner scheduled fairly.          *)
(***************************************************************************)
RunnerStep ==
    \/ processing
    \/ mymet_open
    \/ mymet_popen
    \/ mymet_read
    \/ mymet_wait
    \/ tqdm_create
    \/ tqdm_open
    \/ tqdm_popen
    \/ tqdm_read
    \/ tqdm_unwind
    \/ tqdm_wait
    \/ standard_open
    \/ standard_run
    \/ standard_wait

ChildStep ==
    \/ child_write
    \/ child_stderr
    \/ child_close
    \/ child_exit

NextFair == RunnerStep \/ ChildStep

FairSpec ==
    Init /\ [][NextFair]_vars /\ WF_vars(RunnerStep) /\ WF_vars(ChildStep)

(***************************************************************************)
(* Properties                                                              *)
(***************************************************************************)

\* C1: under tqdm every delta passed to the progress display is >= 0,
\* whatever the order of the out_time_ms reports.
C1_DeltasNeverNegative ==
    \A k \in DOMAIN updates : updates[k] >= 0

NonDecreasing(s) == \A i, j \in DOMAIN s : i <= j => s[i] <= s[j]

\* the whole seconds shown after the first k reports: nearest to the report
Nearest(w, us) == 2 * (us - w * 1000000) <= 1000000
                    /\ 2 * (w * 1000000 - us) <= 1000000

RECURSIVE SumTo(_, _)
SumTo(s, k) == IF k = 0 THEN 0 ELSE SumTo(s, k - 1) + s[k]

\* C2: under tqdm, for non-decreasing out_time_ms reports the k-th delta is
\* the whole seconds of the k-th report minus those of the report before it
\* (0 before the first): 1000000 then 3000000 gives 1 then 2.
C2_DeltaIsDifference ==
    /\ Len(updates) = Len(reports)
    /\ NonDecreasing(reports) =>
          \A k \in DOMAIN updates :
              /\ Nearest(SumTo(updates, k), reports[k])
              /\ updates[k] = SumTo(updates, k) - SumTo(updates, k - 1)
              /\ updates[k] =
                    WholeSeconds(reports[k])
                      - (IF k = 1 THEN 0 ELSE WholeSeconds(reports[k - 1]))
    /\ reports = <<1000000, 3000000>> => updates = <<1, 2>>
    /\ reports = <<1500000, 2500000>> => updates = <<2, 0>>

C2_Witness ==
    /\ meter = "tqdm"
    /\ reports = <<1000000, 3000000>>
    /\ updates = <<1, 2>>

\* the job has ended after the runner's wait-for-exit returned
WaitedAndEnded == didWait /\ pc = "idle"

C4_MissingBinaryFailsAtSpawn ==
    binary = "missing" =>
        /\ child = "none"
        /\ ~didRead /\ ~didWait
        /\ pc \notin {"read", "wait", "unwind"}
        /\ spawnTried =>
              /\ pc = "idle"
              /\ outcome = "failure"
              /\ err.type = "FFMpegError"
              /\ err.cause = "FileNotFoundError"

C4_Witness ==
    /\ binary = "missing"
    /\ spawnTried
    /\ meter = "standard"
    /\ outcome = "failure"
    /\ err.type = "FFMpegError"

InterruptedWhileSpawned ==
    /\ pc = "idle"
    /\ err.cause = "KeyboardInterrupt"
    /\ spawnTried

\* C6: in each of the three strategies an interrupt while the child is
\* spawned and running sends the child a termination request (terminate,
\* never kill) before the run ends; the run ends and reports no failure.
C6_InterruptTerminatesGracefully ==
    InterruptedWhileSpawned =>
        /\ termSent /\ ~killSent
        /\ run = "ended"
        /\ outcome = "exit"

\* C7: in each strategy the invocation is written to the freshly opened log
\* before the child is spawned and is the first entry of the log: no engine
\* output precedes it.
C7_InvocationFirstInLog ==
    /\ spawnTried => (logFile \o logBuf) # <<>>
    /\ (logFile \o logBuf) # <<>> => Head(logFile \o logBuf) = Header
    /\ logFile # <<>> => Head(logFile) = Header

\* C8: under mymet and tqdm, with child and runner scheduled fairly, the
\* runner drains the pipe and waits for the exit only after end-of-stream,
\* and a job whose child has been spawned ends in success or in FFMpegError.
C8_PipedJobTerminates ==
    (Piped(meter) /\ child = "running")
        ~> (pc = "idle" /\ outcome \in {"success", "failure"})

\* what does hold of the piped strategies: the child is never left blocked
\* on a full pipe and processing() returns or raises
PipedJobReturnsOrRaises ==
    (Piped(meter) /\ child = "running") ~> (pc = "idle" /\ child = "exited")

\* the wait-for-exit comes after end-of-stream, and the child never stays
\* blocked while the runner is in its read loop
WaitOnlyAfterEof ==
    /\ pc = "wait" /\ Piped(meter) => (pipe = <<>> /\ child # "running")
    /\ didWait /\ Piped(meter) => didRead

\* how many arguments of an invocation are the flag o
Count(cmd, o) == Cardinality({k \in DOMAIN cmd : cmd[k].opt = o})

\* C9: every invocation built holds exactly one -ss flag, and one -to flag
\* when the track has an END offset and none when it has not.
C9_OneSsAndToIffEnd ==
    \A i \in DOMAIN arguments :
        /\ Count(arguments[i], "-ss") = 1
        /\ Count(arguments[i], "-to") =
              (IF "END" \in audiotracks[i].keys THEN 1 ELSE 0)

C9_Witness ==
    /\ built = "returned"
    /\ Len(arguments) >= 2
    /\ "END" \in audiotracks[1].keys /\ Count(arguments[1], "-to") = 1
    /\ "END" \notin audiotracks[2].keys /\ Count(arguments[2], "-to") = 0

\* us microseconds is n / 44100 seconds rounded to 6 decimal places: no
\* other count of microseconds is nearer (n / 44100 s = n * 10000 / 441 us)
Rounded6(us, n) ==
    /\ 2 * (us * 441 - n * 10000) <= 441
    /\ 2 * (n * 10000 - us * 441) <= 441

ValueOf(cmd, o) == cmd[CHOOSE k \in DOMAIN cmd : cmd[k].opt = o].num

\* C10: the seconds after -ss and -to are the offset / 44100 rounded to 6
\* decimal places (44100 gives 1.0, 22050 gives 0.5), and the value after
\* -ss is never greater than the value after -to.
C10_SecondsRounded ==
    \A i \in DOMAIN arguments :
        LET t == audiotracks[i]
            cmd == arguments[i]
        IN  /\ Rounded6(ValueOf(cmd, "-ss"), t.START)
            /\ t.START = 44100 => ValueOf(cmd, "-ss") = 1000000
            /\ t.START = 22050 => ValueOf(cmd, "-ss") = 500000
            /\ "END" \in t.keys =>
                  /\ Rounded6(ValueOf(cmd, "-to"), t.END)
                  /\ t.END = 44100 => ValueOf(cmd, "-to") = 1000000
                  /\ t.END = 22050 => ValueOf(cmd, "-to") = 500000
                  /\ ValueOf(cmd, "-ss") <= ValueOf(cmd, "-to")

C10_Witness ==
    /\ built = "returned"
    /\ \E i \in DOMAIN arguments :
          /\ audiotracks[i].START = 1
          /\ "END" \in audiotracks[i].keys /\ audiotracks[i].END = 22050
          /\ ValueOf(arguments[i], "-ss") = 23
          /\ ValueOf(arguments[i], "-to") = 500000

\* the -metadata arguments of an invocation for one key
MetaOf(cmd, k) == {j \in DOMAIN cmd : cmd[j].opt = "-metadata" /\ cmd[j].key = k}

\* the invocation holds one -metadata argument per key, the value of an
\* empty or absent field is empty, and TRACK is "N/total"
AllMetadata(cmd, t, total) ==
    /\ \A k \in MetaKeys \cup {"TRACK"} : Cardinality(MetaOf(cmd, k)) = 1
    /\ Count(cmd, "-metadata") = 8
    /\ \A k \in MetaKeys : \A j \in MetaOf(cmd, k) :
          cmd[j].val = (IF k \in t.keys THEN t[k] ELSE <<>>)
    /\ \A j \in MetaOf(cmd, "TRACK") :
          \E a, b \in 1..3 :
              /\ cmd[j].val = Str(t.TRACK_NUM) \o <<"/">> \o Str(total)
              /\ Len(cmd[j].val) = a + 1 + b
              /\ cmd[j].val[a + 1] = "/"

\* C11: once ffmpeg_arguments has ended, every track of the list has an
\* invocation with exactly one -metadata argument for each of the eight keys,
\* empty when the field is empty or absent, and TRACK is "N/total".
C11_EveryTrackHasAllMetadata ==
    built # "no" =>
        \A i \in DOMAIN audiotracks :
            /\ i \in DOMAIN arguments
            /\ AllMetadata(arguments[i], audiotracks[i], Len(audiotracks))

\* what does hold: every invocation that was built has all its metadata
BuiltHaveAllMetadata ==
    \A i \in DOMAIN arguments :
        AllMetadata(arguments[i], audiotracks[i], Len(audiotracks))

\* text of a track number below 100 on two digits
TwoDigits(n) == <<Digit[(n \div 10) + 1], Digit[(n % 10) + 1]>>

\* C12: the last argument of every invocation is the output path, in the
\* destination directory, named by the two-digit zero-padded track number,
\* " - " and the title.
C12_OutputPathLast ==
    \A i \in DOMAIN arguments :
        LET cmd == arguments[i]
            t == audiotracks[i]
            last == cmd[Len(cmd)]
        IN  /\ last.opt = "output"
            /\ Count(cmd, "output") = 1
            /\ last.key = "tempdir"
            /\ last.val = TwoDigits(t.TRACK_NUM) \o <<" - ">> \o t.TITLE

C12_Witness ==
    /\ built = "returned"
    /\ Len(arguments) = 2
    /\ audiotracks[1].TRACK_NUM = 9 /\ audiotracks[2].TRACK_NUM = 10
    /\ arguments[1][Len(arguments[1])].val = <<"0", "9", " - ", "x">>
    /\ arguments[2][Len(arguments[2])].val = <<"1", "0", " - ", "x">>

\* C13: ffmpeg_arguments never raises, and returns one invocation and one
\* duration per track.
C13_NoFailureMode ==
    built # "no" =>
        /\ built = "returned"
        /\ Len(arguments) = Len(audiotracks)
        /\ Len(seconds) = Len(audiotracks)
        /\ \A i \in DOMAIN seconds : seconds[i] = audiotracks[i].DURATION

(***************************************************************************)
(* FFProbe: run the inspection engine once, parse its report into the      *)
(* stream and format lists, and answer the accessors.                      *)
(***************************************************************************)
MaxSections == 3
MaxCalls == 2

\* A line of the report is a sequence of symbols; "=" is a symbol of its own.
StreamOpen == <<"[STREAM]">>
StreamClose == <<"[/STREAM]">>
FormatOpen == <<"[FORMAT]">>
FormatClose == <<"[/FORMAT]">>
CodecType(k) == <<"codec_type", "=", k>>
TitleLine == <<"title", "=", "a", "=", "b">>
SizeLine == <<"size", "=", "a">>
Blank == <<>>

\* the pieces a report is made of: stream and format sections, an empty
\* line, and a close marker that no open marker precedes
Sections ==
    { <<StreamOpen, CodecType("video"), StreamClose>>,
      <<StreamOpen, CodecType("audio"), SizeLine, StreamClose>>,
      <<StreamOpen, CodecType("subtitle"), StreamClose>>,
      <<FormatOpen, TitleLine, SizeLine, FormatClose>>,
      <<FormatOpen, SizeLine, FormatClose>>,
      <<Blank>>,
      <<StreamClose>> }

\* the lists of a list, one after another
RECURSIVE Flatten(_)
Flatten(ss) == IF ss = <<>> THEN <<>> ELSE Head(ss) \o Flatten(Tail(ss))

\* what the engine writes on stderr
Diagnostics == {<<>>, <<"Invalid data found">>}

NoMarker(line, m) == FALSE

\* re.match('\\[STREAM\\]', line): the line starts with the marker
IsMarker(line, m) == Len(line) >= 1 /\ line[1] = m

\* one loop of parser over the lines: acc is the list the records go to
RECURSIVE Pass(_, _, _, _, _)
Pass(lines, open, close, acc, data) ==
    IF lines = <<>> THEN [list |-> acc, datalines |-> data]
    ELSE IF IsMarker(Head(lines), open)
         THEN Pass(Tail(lines), open, close, acc, <<>>)
    ELSE IF IsMarker(Head(lines), close)
         THEN Pass(Tail(lines), open, close, Append(acc, data), <<>>)
    ELSE Pass(Tail(lines), open, close, acc, Append(data, Head(lines)))

\* FFProbe.parser(output)
parser(probing) ==
    LET s == Pass(probing, "[STREAM]", "[/STREAM]", mediastreams, datalines)
        f == Pass(probing, "[FORMAT]", "[/FORMAT]", mediaformat, s.datalines)
    IN  /\ mediastreams' = s.list
        /\ mediaformat' = f.list
        /\ datalines' = f.datalines

\* raise FFProbeError(f'ffprobe FAILED: {error}')
ProbeExitFailureNoText(error) == ProbeError("exit", <<>>)
ProbeExitFailure(error) == ProbeError("exit", error)

\* except (OSError, FileNotFoundError) as excepterr:
\*     raise FFProbeError(excepterr) from excepterr
ProbeSpawnFailure(b) ==
    ProbeError(IF b = "missing" THEN "FileNotFoundError" ELSE "PermissionError",
               <<"[Errno]">>)

ffmpegVars == <<meter, dry, plat, binary, logOk, buildVars, run, job, msgs, pc,
                outcome, err, argOk, logVars, childVars, progVars, sigVars,
                callVars>>
callsVars == <<ret, lastCall, firstRet, ncalls>>
constructed == <<ffprobe_url, parse, probed, perr, cmnd, proc, output>>

\* FFProbe.__init__: build the command, run the engine, parse or keep the
\* output
FFProbe_init ==
    /\ probed = "no"
    /\ \E balanced \in BOOLEAN :
        IF ~ShlexSplit(plat, balanced)
        THEN /\ cmnd' = "ValueError"
             /\ probed' = "raised"
             /\ perr' = [type |-> "ValueError", cause |-> "shlex", text |-> <<>>]
             /\ UNCHANGED <<proc, output, mediastreams, mediaformat, datalines,
                            writer>>
        ELSE IF ffprobe_url # "ok"
        THEN /\ cmnd' = "list"
             /\ proc' = Proc("nospawn", 0, <<>>)
             /\ probed' = "raised"
             /\ perr' = ProbeSpawnFailure(ffprobe_url)
             /\ UNCHANGED <<output, mediastreams, mediaformat, datalines,
                            writer>>
        ELSE \E returncode \in ExitCodes :
            IF returncode # 0
            THEN \E error \in Diagnostics :
                    /\ cmnd' = "list"
                    /\ proc' = Proc("exited", returncode, error)
                    /\ probed' = "raised"
                    /\ perr' = ProbeExitFailure(error)
                    /\ UNCHANGED <<output, mediastreams, mediaformat,
                                   datalines, writer>>
            ELSE \E n \in 0..MaxSections : \E ss \in [1..n -> Sections] :
                    /\ cmnd' = "list"
                    /\ proc' = Proc("exited", 0, <<>>)
                    /\ probed' = "done"
                    /\ perr' = perr
                    /\ output' = Flatten(ss)
                    /\ IF parse
                       THEN /\ parser(Flatten(ss))
                            /\ writer' = writer
                       ELSE /\ writer' = Flatten(ss)
                            /\ UNCHANGED <<mediastreams, mediaformat,
                                           datalines>>
    /\ UNCHANGED <<ffmpegVars, ffprobe_url, parse, video, audio, subtitle,
                   p_format, callsVars>>

\* a call of an accessor has returned r
Returned(c, r) ==
    /\ ret' = r
    /\ lastCall' = c
    /\ firstRet' = IF firstRet[c] = NoRet THEN [firstRet EXCEPT ![c] = r]
                   ELSE firstRet
    /\ ncalls' = ncalls + 1

ListRet(l) == [kind |-> "list", val |-> l]

AllStreams(kind) == mediastreams

\* for datastream in self.mediastreams:
\*     if 'codec_type=<kind>' in datastream: the records that are appended
Matching(kind) ==
    SelectSeq(mediastreams,
              LAMBDA d : \E i \in DOMAIN d : d[i] = CodecType(kind))

video_stream ==
    /\ probed = "done" /\ ncalls < MaxCalls
    /\ video' = video \o Matching("video")
    /\ Returned([fn |-> "video", item |-> <<>>], ListRet(video'))
    /\ UNCHANGED <<ffmpegVars, constructed, mediastreams, mediaformat, datalines, audio, subtitle,
                   p_format, writer>>

audio_stream ==
    /\ probed = "done" /\ ncalls < MaxCalls
    /\ audio' = audio \o Matching("audio")
    /\ Returned([fn |-> "audio", item |-> <<>>], ListRet(audio'))
    /\ UNCHANGED <<ffmpegVars, constructed, mediastreams, mediaformat, datalines, video, subtitle,
                   p_format, writer>>

subtitle_stream ==
    /\ probed = "done" /\ ncalls < MaxCalls
    /\ subtitle' = subtitle \o Matching("subtitle")
    /\ Returned([fn |-> "subtitle", item |-> <<>>], ListRet(subtitle'))
    /\ UNCHANGED <<ffmpegVars, constructed, mediastreams, mediaformat, datalines, video, audio,
                   p_format, writer>>

\* str(item) in i
Contains(sub, line) ==
    \E k \in 0..(Len(line) - Len(sub)) : SubSeq(line, k + 1, k + Len(sub)) = sub

\* i.split('=')
RECURSIVE Split(_)
Split(line) ==
    IF \A k \in DOMAIN line : line[k] # "="
    THEN <<line>>
    ELSE LET e == CHOOSE k \in DOMAIN line :
                      line[k] = "=" /\ \A j \in 1..(k - 1) : line[j] # "="
         IN  <<SubSeq(line, 1, e - 1)>> \o Split(SubSeq(line, e + 1, Len(line)))

\* for _list in self._format: for i in _list: if str(item) in i:
\*     return i.split('=')[1]
Lookup(fmt, item) ==
    LET lines == Flatten(fmt)
        hits == {k \in DOMAIN lines : Contains(item, lines[k])}
    IN  IF item = <<>> \/ hits = {} THEN ListRet(fmt)
        ELSE LET i == lines[CHOOSE k \in hits : \A j \in hits : k <= j]
             IN  IF Len(Split(i)) >= 2
                 THEN [kind |-> "value", val |-> Split(i)[2]]
                 ELSE [kind |-> "IndexError", val |-> <<>>]

data_format ==
    /\ probed = "done" /\ ncalls < MaxCalls
    /\ \E item \in Items :
          /\ p_format' = p_format \o mediaformat
          /\ Returned([fn |-> "format", item |-> item], Lookup(p_format', item))
    /\ UNCHANGED <<ffmpegVars, constructed, mediastreams, mediaformat, datalines, video, audio,
                   subtitle, writer>>

InitProbe ==
    /\ ffprobe_url \in Binaries /\ parse \in BOOLEAN /\ plat = "Linux"
    /\ ProbeFresh
    /\ meter = "standard" /\ dry = FALSE /\ binary = "ok" /\ logOk = TRUE
    /\ audiotracks = <<>> /\ format = "flac"
    /\ arguments = <<>> /\ seconds = <<>> /\ built = "no"
    /\ run = "running" /\ job = 0 /\ msgs = <<>>
    /\ pc = "idle" /\ outcome = "none" /\ err = NoErr /\ argOk = TRUE
    /\ logOpen = FALSE /\ logBuf = <<>> /\ logFile = <<>> /\ logCreated = FALSE
    /\ child = "none" /\ toWrite = 0 /\ errLeft = 0 /\ pipe = <<>>
    /\ rdOpen = FALSE /\ exitCode = 0
    /\ progbar = "none" /\ closes = 0 /\ previous_s = 0
    /\ updates = <<>> /\ reports = <<>> /\ display = <<>>
    /\ termSent = FALSE /\ killSent = FALSE
    /\ didRead = FALSE /\ didWait = FALSE /\ spawnTried = FALSE

NextProbe ==
    \/ FFProbe_init
    \/ video_stream
    \/ audio_stream
    \/ subtitle_stream
    \/ data_format

SpecProbe == InitProbe /\ [][NextProbe]_vars

\* the four section markers
MarkerLines == {StreamOpen, StreamClose, FormatOpen, FormatClose}

\* the sections of a report between an open and a close marker: the pairs
\* of an open marker and the next close marker, no marker of the kind between
BlocksOf(report, open, close) ==
    { b \in (DOMAIN report) \X (DOMAIN report) :
        /\ b[1] < b[2]
        /\ report[b[1]] = open /\ report[b[2]] = close
        /\ \A k \in (b[1] + 1)..(b[2] - 1) : report[k] \notin {open, close} }

\* the non-marker lines between the markers of a block
LinesOf(report, b) ==
    SelectSeq(SubSeq(report, b[1] + 1, b[2] - 1),
              LAMBDA l : l \notin MarkerLines)

\* the records of a set of blocks, in report order
RECURSIVE RecordsOf(_, _)
RecordsOf(report, bs) ==
    IF bs = {} THEN <<>>
    ELSE LET b == CHOOSE x \in bs : \A y \in bs : x[1] <= y[1]
         IN  <<LinesOf(report, b)>> \o RecordsOf(report, bs \ {b})

\* every marker of the report opens or closes a section of its own: the
\* markers come as open, close pairs of one kind
Balanced(report) ==
    LET ms == SelectSeq(report, LAMBDA l : l \in MarkerLines)
    IN  /\ Len(ms) % 2 = 0
        /\ \A k \in DOMAIN ms :
              k % 2 = 1 =>
                  \/ ms[k] = StreamOpen /\ ms[k + 1] = StreamClose
                  \/ ms[k] = FormatOpen /\ ms[k + 1] = FormatClose

Parsed == probed = "done" /\ parse

\* C14 as stated: for every report, the stream list holds one record per
\* [STREAM]...[/STREAM] block, in order, each with the non-marker lines of
\* its block; no stream section gives an empty list.
C14_StreamRecordsAreBlocks ==
    Parsed =>
        mediastreams =
            RecordsOf(output, BlocksOf(output, StreamOpen, StreamClose))

\* C14 amended: the same for the reports whose markers are balanced.
C14_StreamRecordsOfBalanced ==
    (Parsed /\ Balanced(output)) =>
        mediastreams =
            RecordsOf(output, BlocksOf(output, StreamOpen, StreamClose))

C14_Witness ==
    /\ Parsed
    /\ output = <<FormatOpen, SizeLine, FormatClose,
                  StreamOpen, CodecType("video"), StreamClose,
                  StreamOpen, CodecType("audio"), SizeLine, StreamClose>>
    /\ mediastreams = <<<<CodecType("video")>>, <<CodecType("audio"), SizeLine>>>>

\* the part of a line after its first "=" when its key is k
HasField(line, k, v) ==
    /\ Len(line) >= 2 /\ line[1] = k /\ line[2] = "="
    /\ SubSeq(line, 3, Len(line)) = v

\* the stream records whose codec_type is kind, in order
OfCodecType(kind) ==
    SelectSeq(mediastreams,
              LAMBDA d : \E i \in DOMAIN d : HasField(d[i], "codec_type", <<kind>>))

\* C15: the first call of video_stream, audio_stream and subtitle_stream
\* returns the stream records whose codec_type is video, audio and subtitle,
\* each once and in order; none gives the empty list.
C15_AccessorsFilterByCodecType ==
    Parsed =>
        \A k \in {"video", "audio", "subtitle"} :
            LET r == firstRet[[fn |-> k, item |-> <<>>]]
            IN  r # NoRet => r = ListRet(OfCodecType(k))

C15_Witness ==
    /\ Parsed
    /\ output = <<StreamOpen, CodecType("video"), StreamClose,
                  StreamOpen, CodecType("audio"), SizeLine, StreamClose,
                  FormatOpen, SizeLine, FormatClose>>
    /\ firstRet[[fn |-> "video", item |-> <<>>]] =
          ListRet(<<<<CodecType("video")>>>>)
    /\ firstRet[[fn |-> "audio", item |-> <<>>]] =
          ListRet(<<<<CodecType("audio"), SizeLine>>>>)

\* C16: every call of an accessor returns what its first call returned.
C16_AccessorsIdempotent ==
    lastCall # NoCall => ret = firstRet[lastCall]

\* what does hold: the accessors leave the stream and format lists alone
ListsUnchanged ==
    [][probed = "done" =>
          mediastreams' = mediastreams /\ mediaformat' = mediaformat]_vars

\* the lines of the format records whose key is the item
FieldLines(item) ==
    LET lines == Flatten(mediaformat)
    IN  {k \in DOMAIN lines :
            /\ Len(lines[k]) > Len(item)
            /\ SubSeq(lines[k], 1, Len(item)) = item
            /\ lines[k][Len(item) + 1] = "="}

\* C17: data_format(item) returns all that follows the first "=" of the
\* line whose key is the item.
C17_SplitOnFirstEquals ==
    (Parsed /\ lastCall.fn = "format" /\ lastCall.item # <<>>
        /\ FieldLines(lastCall.item) # {}) =>
        LET lines == Flatten(mediaformat)
            k == CHOOSE x \in FieldLines(lastCall.item) :
                     \A y \in FieldLines(lastCall.item) : x <= y
        IN  /\ ret.kind = "value"
            /\ ret.val = SubSeq(lines[k], Len(lastCall.item) + 2, Len(lines[k]))

\* C18: a parsed report with at least one [FORMAT]...[/FORMAT] section holds
\* exactly one format record.
C18_OneFormatRecord ==
    (Parsed /\ BlocksOf(output, FormatOpen, FormatClose) # {}) =>
        Len(mediaformat) = 1

\* C19: a non-zero exit code of the engine raises FFProbeError with the
\* text of stderr and nothing is parsed; a missing binary raises an
\* FFProbeError that differs from it.
C19_ProbeFailures ==
    /\ (proc.state = "exited" /\ proc.returncode # 0) =>
          /\ probed = "raised"
          /\ perr.type = "FFProbeError" /\ perr.cause = "exit"
          /\ perr.text = proc.error
          /\ mediastreams = <<>> /\ mediaformat = <<>> /\ datalines = <<>>
          /\ writer = <<>> /\ output = <<>>
    /\ (proc.state = "nospawn" /\ ffprobe_url = "missing") =>
          /\ probed = "raised"
          /\ perr.type = "FFProbeError"
          /\ perr.cause = "FileNotFoundError"
          /\ \A rc \in ExitCodes, e \in Diagnostics :
                perr # ProbeExitFailure(e)
    /\ (probed = "done") => (proc.state = "exited" /\ proc.returncode = 0)

C19_Witness ==
    /\ proc.state = "exited" /\ proc.returncode = 2
    /\ proc.error = <<"Invalid data found">>
    /\ perr = ProbeError("exit", <<"Invalid data found">>)

\* all that was written to the log, flushed or not
Written == logFile \o logBuf

\* the lines of a sequence that hold the time marker
WithTime(ls) == SelectSeq(ls, LAMBDA l : l.key = "time=")

\* a job of the mymet strategy past the opening of its log, or ended in
\* success or failure with its log opened
MymetLogged ==
    /\ meter = "mymet" /\ logCreated
    /\ \/ pc \in {"spawn", "read", "wait"}
       \/ pc = "idle" /\ outcome \in {"success", "failure"}

\* the runner takes a line from the child's stderr
MymetReads ==
    meter = "mymet" /\ pc = "read" /\ pipe # <<>> /\ pipe' = Tail(pipe)

\* C20: under mymet the log starts with the invocation and each line read
\* is then appended to it once, nothing else is; a line is displayed when it
\* holds the time marker and only then, never before it is written; when the
\* job ends in success or failure all of it is in the file.
C20_MymetLogHoldsLinesRead ==
    /\ [](MymetLogged =>
            /\ Written # <<>> /\ Head(Written) = Header
            /\ display = WithTime(Tail(Written))
            /\ pc = "idle" => (logBuf = <<>> /\ ~logOpen))
    /\ [][MymetReads =>
            /\ Written' = Append(Written, Head(pipe))
            /\ display' = display \o WithTime(<<Head(pipe)>>)]_vars
    /\ [][(MymetLogged /\ ~MymetReads /\ pc # "idle") =>
            (Written' = Written /\ display' = display)]_vars

C20_Witness ==
    /\ meter = "mymet" /\ pc = "idle" /\ outcome = "failure" /\ didWait
    /\ logFile = <<Header, Ln("time=", TRUE, 1), Ln("info", FALSE, 0)>>
    /\ display = <<Ln("time=", TRUE, 1)>>

\* a job has ended and none is in progress
Ended == pc = "idle" /\ job > 0

\* a child that holds the log file as its stderr and has lines to write
ChildWritesLog ==
    meter = "tqdm" /\ child \in {"running", "closed"} /\ errLeft > 0

\* C21: when a job has ended, whatever the way, the runner has closed the
\* log file and no child of the job is still writing to it.
C21_LogReleasedAtJobEnd ==
    Ended => (~logOpen /\ logBuf = <<>> /\ ~ChildWritesLog)

\* what does hold: between jobs the runner holds no open log file, and a
\* job that ended in success or failure has no child left
RunnerClosedLog == Ended => (~logOpen /\ logBuf = <<>>)
NoChildAfterResult ==
    (Ended /\ outcome \in {"success", "failure"}) =>
        child \in {"none", "exited"}

\* an error that stems from a fault of the log file or of the spawn
IOFault(e) ==
    \/ e.type \in {"OSError", "FileNotFoundError", "PermissionError"}
    \/ e.cause \in {"OSError", "FileNotFoundError", "PermissionError"}

\* C22: a job that met an I/O or process fault ends in FFMpegError, in each
\* of the three strategies.
C22_FaultsRaiseFFMpegError ==
    (Ended /\ IOFault(err)) => (outcome = "failure" /\ err.type = "FFMpegError")

\* what does hold: the same under mymet and tqdm
PipedFaultsRaiseFFMpegError ==
    (Ended /\ Piped(meter) /\ IOFault(err)) =>
        (outcome = "failure" /\ err.type = "FFMpegError")

\* C23: under tqdm a line that is not out_time_ms=<integer> gives no
\* progress event, leaves previous_s alone and does not end the job: no job
\* ends in the ValueError of int(), and a progress event stands for each
\* integer report only.
C23_OtherLinesIgnored ==
    meter = "tqdm" =>
        /\ pc # "unwind"
        /\ ~(err.type = "ValueError" /\ err.cause = "int")
        /\ Len(updates) = Len(reports)

\* C24: under tqdm, once processing_with_tqdm_progress has ended the bar it
\* created is closed, and it is never closed twice.
C24_ProgbarClosedOnce ==
    meter = "tqdm" =>
        /\ closes <= 1
        /\ (Ended /\ progbar # "none") => (progbar = "closed" /\ closes = 1)

\* what does hold: the bar is never closed twice, and it is closed once when
\* the job ends in success, in FFMpegError or in SystemExit
ProgbarClosedOnResult ==
    meter = "tqdm" =>
        /\ closes <= 1
        /\ (Ended /\ progbar # "none"
                /\ outcome \in {"success", "failure", "exit"}) =>
              (progbar = "closed" /\ closes = 1)

\* C25: under mymet and tqdm an interrupt of a started job ends the run as
\* a cancellation (SystemExit), and the handler never uses a child that was
\* not created.
C25_InterruptIsCancellation ==
    (Piped(meter) /\ Ended) =>
        /\ err.type # "UnboundLocalError"
        /\ err.type # "KeyboardInterrupt"
        /\ termSent => spawnTried

\* what does hold: once the child exists the interrupt ends the run with
\* SystemExit, after a terminate request
InterruptAfterSpawnIsCancellation ==
    (Piped(meter) /\ Ended /\ outcome = "exit") =>
        (err = SystemExit /\ termSent /\ run = "ended")
====
